---- MODULE Spec2Model ----
(***************************************************************************)
(* Model of the `sync` command handler of examples/sync_evernote.js: the   *)
(* promise chains the handler builds, one action per promise settlement.   *)
(* The handlers registered on a promise run in registration order in the   *)
(* same microtask drain, so the settlement of a promise and the handlers it *)
(* triggers are one atomic action.                                         *)
(***************************************************************************)
EXTENDS Integers, Sequences, FiniteSets, TLC

\* ---------------------------------------------------------------- bounds
MaxExt == 1        \* items in the longest external payload
NumSink == 1       \* notes in the Sink's import notebook
NumSource == 2     \* pages in the largest Source snapshot

VARIABLES
    argv,          \* parsed command line: the flags the handler reads
    rejections,    \* runtime policy for unhandled rejections: "warn" or "throw"
    file,          \* content of argv.mappingcachefile on disk
    preRunFile,    \* content of that file when the run started
    mapping,       \* e.mapping, sequence of <<sourceId, sinkId>>
    tagged,        \* Sink notes carrying the DedupTag
    private_api,   \* state of the external-payload promise
    extData,       \* value private_api resolved with
    evernote_to_roam, \* state of the Sink-eligible promise chain
    initCalls,     \* arguments of the e.init calls so far
    candidates,    \* notes returned by e.getNotesToImport
    sinkData,      \* value evernote_to_roam resolved with
    roamdata,      \* state of the roamdata chain
    importCalls,   \* payloads api.import was called with
    cleanupCalls,  \* number of e.cleanupImportNotes calls
    exportCalls,   \* arguments of the api.getExportData calls
    snapshot,      \* value roamdata resolved with
    checkpoint,    \* state of the intermediate fs.writeFile
    checkpointData,\* content the intermediate fs.writeFile was given
    push,          \* state of the push chain
    finish,        \* state of the finish chain
    processed,     \* number of snapshot notes e.processJSON has handled
    processCalls,  \* number of e.processJSON calls
    finalData,     \* content the final fs.writeFile was given
    writeCalls,    \* number of fs.writeFile calls
    success,       \* 'success' was printed
    unhandled,     \* some promise was rejected with no handler attached
    crashed,       \* the runtime terminated the process
    prior          \* what the previous run of the command left, if there was one

vars == << argv, rejections, file, preRunFile, mapping, tagged, private_api, extData,
           evernote_to_roam, initCalls, candidates, sinkData, roamdata, importCalls,
           cleanupCalls, exportCalls, snapshot, checkpoint, checkpointData, push,
           finish, processed, processCalls, finalData, writeCalls, success,
           unhandled, crashed, prior >>

\* ---------------------------------------------------------------- values
Undefined == << "undefined" >>
ExtItem(i) == << "ext", i >>
SinkItem(s) == << "sink", s >>

SinkIds == 1..NumSink

\* Bodies response.json() can decode to: arrays of Source-shaped items.
ExtPayloads == { [ i \in 1..n |-> ExtItem(i) ] : n \in 0..MaxExt }

RECURSIVE Sorted(_)
Sorted(S) ==
    IF S = {} THEN << >>
    ELSE LET m == CHOOSE x \in S : \A y \in S : x <= y
         IN  << m >> \o Sorted(S \ { m })

\* Snapshots api.getExportData can resolve with: the pages of the graph.
Snapshots == { [ i \in 1..n |-> i ] : n \in 0..NumSource }

\* ------------------------------------------------------------ cache file
Missing == [ kind |-> "missing", body |-> << >> ]

RECURSIVE Flatten(_)
Flatten(m) ==
    IF m = << >> THEN << >>
    ELSE << Head(m)[1], Head(m)[2] >> \o Flatten(Tail(m))

\* JSON.stringify( [ ...e.mapping ], null, 2 ): the pairs written out in order.
Stringify(m) == [ kind |-> "text", body |-> Flatten(m) ]

\* A cache file cut short in the middle of a pair: JSON.parse throws on it.
Truncated == [ kind |-> "text", body |-> << 1 >> ]

Parses(f) == f.kind = "text" /\ Len(f.body) % 2 = 0

RECURSIVE Pairs(_)
Pairs(b) ==
    IF Len(b) < 2 THEN << >>
    ELSE << << b[1], b[2] >> >> \o Pairs(SubSeq(b, 3, Len(b)))

\* JSON.parse( data ) of a file that parses.
Parse(f) == Pairs(f.body)

InitialFiles == { Missing, Truncated, Stringify(<< >>), Stringify(<< << 1, 1 >> >>) }

\* ------------------------------------------------------------ e.mapping
\* 0 stands for "absent": identifiers are positive.
LookupBySource(m, r) ==
    IF \E i \in 1..Len(m) : m[i][1] = r
    THEN m[CHOOSE i \in 1..Len(m) : m[i][1] = r][2]
    ELSE 0

LookupBySink(m, s) ==
    IF \E i \in 1..Len(m) : m[i][2] = s
    THEN m[CHOOSE i \in 1..Len(m) : m[i][2] = s][1]
    ELSE 0

\* upsert: replaces the link of an existing sourceId in place, appends otherwise.
Upsert(m, r, s) ==
    IF LookupBySource(m, r) # 0
    THEN [ i \in 1..Len(m) |-> IF m[i][1] = r THEN << r, s >> ELSE m[i] ]
    ELSE Append(m, << r, s >>)

NullArg == [ null |-> TRUE, raw |-> << >> ]
RawArg(m) == [ null |-> FALSE, raw |-> m ]

\* e.init( prevData ): the mapping the adapter starts from.
Load(arg) == IF arg.null THEN << >> ELSE arg.raw

\* Identifiers of the notes the Sink holds besides those of the import notebook:
\* the notes e.processJSON creates, each tagged on creation.
MaxSinkId == NumSink + 2 * NumSource

\* Identifier the Sink assigns to a note it creates: one no note carries yet.
FreshSinkId(t) ==
    CHOOSE s \in (NumSink + 1)..MaxSinkId :
        /\ s \notin t
        /\ \A u \in (NumSink + 1)..(s - 1) : u \in t

\* Notes of the import notebook that earlier runs imported and tagged.
InitialTagged == { 1..k : k \in 0..NumSink }

\* e.getNotesToImport(): the notes of the import notebook without the DedupTag.
NotesToImport(t) == Sorted(SinkIds \ t)

\* e.getRoamPayload( notes ): one Source-shaped item per note, in order.
RoamPayload(notes) == [ i \in 1..Len(notes) |-> SinkItem(notes[i]) ]


\* Variant: the two producers pushed in the opposite order.
ImportIntoRoamSwapped(a) ==
    IF a.privateapiurl THEN << "evernote_to_roam", "private_api" >>
    ELSE << "evernote_to_roam" >>

\* ------------------------------------------------------- the handler's code
\* const importIntoRoam = []; ... push( private_api ) ... push( evernote_to_roam )
ImportIntoRoam(a) ==
    IF a.privateapiurl THEN << "private_api", "evernote_to_roam" >>
    ELSE << "evernote_to_roam" >>

\* results[ i ] (0-based): undefined past the end of the array.
At(results, i) ==
    IF i < Len(results) THEN [ defined |-> TRUE, value |-> results[i + 1] ]
    ELSE [ defined |-> FALSE, value |-> << >> ]

\* a.concat( b ): an array argument is spread, any other value is appended.
Concat(a, b) ==
    IF b.defined THEN a.value \o b.value ELSE Append(a.value, Undefined)

\* const payload = results[0].concat( results[1] );
Payload(results) == Concat(At(results, 0), At(results, 1))

\* Variant: the cleanup preference passed on as requested.
RemoveArtifactsAsRequested(a) == a.removezip

\* ! argv.nodownload && argv['removezip']
RemoveArtifacts(a) == (~ a.nodownload) /\ a.removezip

Args == [ privateapiurl : BOOLEAN, mappingcachefile : BOOLEAN, exporturl : BOOLEAN,
          nodownload : BOOLEAN, removezip : BOOLEAN ]

\* The process runs until the runtime terminates it on an unhandled rejection.
Live == ~ crashed /\ ~ (rejections = "throw" /\ unhandled)

\* Promise.all rejects as soon as one of its promises does; roamdata's handlers
\* are skipped and the rejection runs down roamdata and finish.
AllRejects ==
    /\ roamdata' = (IF roamdata = "all" THEN "rejected_all" ELSE roamdata)
    /\ finish' = (IF roamdata = "all" THEN "rejected_roamdata" ELSE finish)

\* The command has not run before.
NoPrior == [ ran |-> FALSE, extData |-> << >>, snapshot |-> << >>, tagged |-> { } ]

Init ==
    /\ argv \in Args
    /\ rejections \in { "warn", "throw" }
    /\ file \in (IF argv.mappingcachefile THEN InitialFiles ELSE { Missing })
    /\ preRunFile = file
    /\ mapping = << >>
    /\ tagged \in InitialTagged
    /\ private_api = (IF argv.privateapiurl THEN "fetch" ELSE "absent")
    /\ extData = << >>
    /\ evernote_to_roam = (IF argv.mappingcachefile THEN "readFile" ELSE "init_else")
    /\ initCalls = (IF argv.mappingcachefile THEN << >> ELSE << NullArg >>)
    /\ candidates = << >>
    /\ sinkData = << >>
    /\ roamdata = "all"
    /\ importCalls = << >>
    /\ cleanupCalls = 0
    /\ exportCalls = << >>
    /\ snapshot = << >>
    /\ checkpoint = "idle"
    /\ checkpointData = Missing
    /\ push = "idle"
    /\ finish = "pending"
    /\ processed = 0
    /\ processCalls = 0
    /\ finalData = Missing
    /\ writeCalls = 0
    /\ success = FALSE
    /\ unhandled = FALSE
    /\ crashed = FALSE
    /\ prior = NoPrior

\* ------------------------------------------------- external-payload producer
\* fetch( argv.privateapiurl ) resolves: response.json() starts.
FetchResolve ==
    /\ Live /\ private_api = "fetch"
    /\ private_api' = "json"
    /\ UNCHANGED << prior, argv, rejections, file, preRunFile, mapping, tagged, extData,
                    evernote_to_roam, initCalls, candidates, sinkData, roamdata,
                    importCalls, cleanupCalls, exportCalls, snapshot, checkpoint,
                    checkpointData, push, finish, processed, processCalls, finalData,
                    writeCalls, success, unhandled, crashed >>

\* fetch rejects, or response.json() rejects: private_api rejects; the promise
\* private_api.then( log ) returns has no handler.
PrivateApiReject ==
    /\ Live /\ private_api \in { "fetch", "json" }
    /\ private_api' = "rejected"
    /\ unhandled' = TRUE
    /\ AllRejects
    /\ UNCHANGED << prior, argv, rejections, file, preRunFile, mapping, tagged, extData,
                    evernote_to_roam, initCalls, candidates, sinkData,
                    importCalls, cleanupCalls, exportCalls, snapshot, checkpoint,
                    checkpointData, push, processed, processCalls, finalData,
                    writeCalls, success, crashed >>

\* response.json() resolves with the decoded payload.
JsonResolve(data) ==
    /\ Live /\ private_api = "json"
    /\ private_api' = "resolved"
    /\ extData' = data
    /\ UNCHANGED << prior, argv, rejections, file, preRunFile, mapping, tagged,
                    evernote_to_roam, initCalls, candidates, sinkData, roamdata,
                    importCalls, cleanupCalls, exportCalls, snapshot, checkpoint,
                    checkpointData, push, finish, processed, processCalls, finalData,
                    writeCalls, success, unhandled, crashed >>

\* --------------------------------------------------- Sink-eligible producer
\* fs.readFile resolves: JSON.parse( data ), then e.init with the parsed value;
\* a throwing JSON.parse is caught and e.init( null ) called instead.
ReadFileResolve ==
    /\ Live /\ evernote_to_roam = "readFile" /\ file.kind = "text"
    /\ IF Parses(file)
       THEN /\ evernote_to_roam' = "init_then"
            /\ initCalls' = Append(initCalls, RawArg(Parse(file)))
            /\ mapping' = Load(RawArg(Parse(file)))
       ELSE /\ evernote_to_roam' = "init_catch"
            /\ initCalls' = Append(initCalls, NullArg)
            /\ mapping' = Load(NullArg)
    /\ UNCHANGED << prior, argv, rejections, file, preRunFile, tagged, private_api, extData,
                    candidates, sinkData, roamdata,
                    importCalls, cleanupCalls, exportCalls, snapshot, checkpoint,
                    checkpointData, push, finish, processed, processCalls, finalData,
                    writeCalls, success, unhandled, crashed >>


\* Variant: no catch handler after the read, a failed read rejects the producer.
ReadFileRejectUncaught ==
    /\ Live /\ evernote_to_roam = "readFile"
    /\ evernote_to_roam' = "rejected"
    /\ unhandled' = TRUE
    /\ AllRejects
    /\ UNCHANGED << prior, argv, rejections, file, preRunFile, mapping, tagged, private_api,
                    extData, initCalls, candidates, sinkData,
                    importCalls, cleanupCalls, exportCalls, snapshot, checkpoint,
                    checkpointData, push, processed, processCalls, finalData,
                    writeCalls, success, crashed >>

\* fs.readFile rejects: the catch handler calls e.init( null ).
ReadFileReject ==
    /\ Live /\ evernote_to_roam = "readFile"
    /\ evernote_to_roam' = "init_catch"
    /\ initCalls' = Append(initCalls, NullArg)
    /\ mapping' = Load(NullArg)
    /\ UNCHANGED << prior, argv, rejections, file, preRunFile, tagged, private_api, extData,
                    candidates, sinkData, roamdata,
                    importCalls, cleanupCalls, exportCalls, snapshot, checkpoint,
                    checkpointData, push, finish, processed, processCalls, finalData,
                    writeCalls, success, unhandled, crashed >>

\* e.init resolves: e.getNotesToImport() is called.
InitResolve ==
    /\ Live /\ evernote_to_roam \in { "init_then", "init_catch", "init_else" }
    /\ evernote_to_roam' = "getNotesToImport"
    /\ UNCHANGED << prior, argv, rejections, file, preRunFile, mapping, tagged, private_api,
                    extData, initCalls, candidates, sinkData, roamdata,
                    importCalls, cleanupCalls, exportCalls, snapshot, checkpoint,
                    checkpointData, push, finish, processed, processCalls, finalData,
                    writeCalls, success, unhandled, crashed >>

\* e.init rejects. The call made in the then handler sits before the catch
\* handler, which calls e.init( null ); any other e.init rejection rejects
\* evernote_to_roam.
InitReject ==
    /\ Live /\ evernote_to_roam \in { "init_then", "init_catch", "init_else" }
    /\ IF evernote_to_roam = "init_then"
       THEN /\ evernote_to_roam' = "init_catch"
            /\ initCalls' = Append(initCalls, NullArg)
            /\ mapping' = Load(NullArg)
            /\ UNCHANGED << roamdata, finish, unhandled >>
       ELSE /\ evernote_to_roam' = "rejected"
            /\ unhandled' = TRUE
            /\ AllRejects
            /\ UNCHANGED << initCalls, mapping >>
    /\ UNCHANGED << prior, argv, rejections, file, preRunFile, tagged, private_api,
                    extData, candidates, sinkData,
                    importCalls, cleanupCalls, exportCalls, snapshot, checkpoint,
                    checkpointData, push, processed, processCalls, finalData,
                    writeCalls, success, crashed >>

\* e.getNotesToImport() resolves and e.getRoamPayload shapes the notes.
GetNotesResolve ==
    /\ Live /\ evernote_to_roam = "getNotesToImport"
    /\ evernote_to_roam' = "resolved"
    /\ candidates' = NotesToImport(tagged)
    /\ sinkData' = RoamPayload(NotesToImport(tagged))
    /\ UNCHANGED << prior, argv, rejections, file, preRunFile, mapping, tagged, private_api,
                    extData, initCalls, roamdata,
                    importCalls, cleanupCalls, exportCalls, snapshot, checkpoint,
                    checkpointData, push, finish, processed, processCalls, finalData,
                    writeCalls, success, unhandled, crashed >>

\* e.getNotesToImport() rejects, or e.getRoamPayload throws on its result.
GetNotesReject ==
    /\ Live /\ evernote_to_roam = "getNotesToImport"
    /\ evernote_to_roam' = "rejected"
    /\ unhandled' = TRUE
    /\ AllRejects
    /\ UNCHANGED << prior, argv, rejections, file, preRunFile, mapping, tagged, private_api,
                    extData, initCalls, candidates, sinkData,
                    importCalls, cleanupCalls, exportCalls, snapshot, checkpoint,
                    checkpointData, push, processed, processCalls, finalData,
                    writeCalls, success, crashed >>

\* ------------------------------------------------------------- roamdata
\* The values the promises of importIntoRoam resolved with, in array order.
Results ==
    [ i \in 1..Len(ImportIntoRoam(argv)) |->
        IF ImportIntoRoam(argv)[i] = "private_api" THEN extData ELSE sinkData ]


\* Variant: the join waits for the Sink-eligible producer only.
AllSettledSinkOnly == evernote_to_roam = "resolved"

\* Variant: the join waits for a fetch even when no endpoint is configured.
AllSettledBoth ==
    /\ private_api = "resolved"
    /\ evernote_to_roam = "resolved"

AllSettledOk ==
    /\ private_api \in { "absent", "resolved" }
    /\ evernote_to_roam = "resolved"


\* Variant: e.cleanupImportNotes() is called without waiting for api.import.
AllResolveEagerCleanup ==
    /\ Live /\ roamdata = "all" /\ AllSettledOk
    /\ IF Len(Payload(Results)) > 0
       THEN /\ roamdata' = "import"
            /\ importCalls' = Append(importCalls, Payload(Results))
       ELSE /\ roamdata' = "cleanup"
            /\ UNCHANGED importCalls
    /\ cleanupCalls' = cleanupCalls + 1
    /\ UNCHANGED << prior, argv, rejections, file, preRunFile, mapping, tagged, private_api,
                    extData, evernote_to_roam, initCalls, candidates, sinkData,
                    exportCalls, snapshot, checkpoint,
                    checkpointData, push, finish, processed, processCalls, finalData,
                    writeCalls, success, unhandled, crashed >>

\* Promise.all resolves and its handler runs: api.import( payload ) for a
\* payload that is not empty; otherwise Promise.resolve(), whose handler
\* calls e.cleanupImportNotes() in the same drain.
AllResolve ==
    /\ Live /\ roamdata = "all" /\ AllSettledOk
    /\ IF Len(Payload(Results)) > 0
       THEN /\ roamdata' = "import"
            /\ importCalls' = Append(importCalls, Payload(Results))
            /\ UNCHANGED cleanupCalls
       ELSE /\ roamdata' = "cleanup"
            /\ cleanupCalls' = cleanupCalls + 1
            /\ UNCHANGED importCalls
    /\ UNCHANGED << prior, argv, rejections, file, preRunFile, mapping, tagged, private_api,
                    extData, evernote_to_roam, initCalls, candidates, sinkData,
                    exportCalls, snapshot, checkpoint,
                    checkpointData, push, finish, processed, processCalls, finalData,
                    writeCalls, success, unhandled, crashed >>

\* Variant: api.getExportData is called alongside e.cleanupImportNotes().
ImportResolveEagerExport ==
    /\ Live /\ roamdata = "import"
    /\ roamdata' = "cleanup"
    /\ cleanupCalls' = cleanupCalls + 1
    /\ exportCalls' = Append(exportCalls, RemoveArtifacts(argv))
    /\ UNCHANGED << prior, argv, rejections, file, preRunFile, mapping, tagged, private_api,
                    extData, evernote_to_roam, initCalls, candidates, sinkData,
                    importCalls, snapshot, checkpoint,
                    checkpointData, push, finish, processed, processCalls, finalData,
                    writeCalls, success, unhandled, crashed >>

\* api.import resolves: e.cleanupImportNotes() is called.
ImportResolve ==
    /\ Live /\ roamdata = "import"
    /\ roamdata' = "cleanup"
    /\ cleanupCalls' = cleanupCalls + 1
    /\ UNCHANGED << prior, argv, rejections, file, preRunFile, mapping, tagged, private_api,
                    extData, evernote_to_roam, initCalls, candidates, sinkData,
                    importCalls, exportCalls, snapshot, checkpoint,
                    checkpointData, push, finish, processed, processCalls, finalData,
                    writeCalls, success, unhandled, crashed >>

\* e.cleanupImportNotes() resolves, the imported notes now carry the DedupTag:
\* api.getExportData is called.
CleanupResolve ==
    /\ Live /\ roamdata = "cleanup"
    /\ roamdata' = "export"
    /\ tagged' = tagged \cup { candidates[i] : i \in 1..Len(candidates) }
    /\ exportCalls' = Append(exportCalls, RemoveArtifacts(argv))
    /\ UNCHANGED << prior, argv, rejections, file, preRunFile, mapping, private_api,
                    extData, evernote_to_roam, initCalls, candidates, sinkData,
                    importCalls, cleanupCalls, snapshot, checkpoint,
                    checkpointData, push, finish, processed, processCalls, finalData,
                    writeCalls, success, unhandled, crashed >>

\* api.import, e.cleanupImportNotes or api.getExportData rejects: roamdata
\* rejects, none of its handlers runs, finish rejects with it.
RoamdataReject(stage) ==
    /\ Live /\ roamdata = stage
    /\ roamdata' = "rejected_" \o stage
    /\ finish' = "rejected_roamdata"
    /\ unhandled' = TRUE
    /\ UNCHANGED << prior, argv, rejections, file, preRunFile, mapping, tagged, private_api,
                    extData, evernote_to_roam, initCalls, candidates, sinkData,
                    importCalls, cleanupCalls, exportCalls, snapshot, checkpoint,
                    checkpointData, push, processed, processCalls, finalData,
                    writeCalls, success, crashed >>

\* api.getExportData resolves with the snapshot and roamdata's three handlers
\* run in the order they were attached: the intermediate fs.writeFile, the
\* POST to argv.exporturl, e.processJSON( data ).
ExportResolve(data) ==
    /\ Live /\ roamdata = "export"
    /\ roamdata' = "resolved"
    /\ snapshot' = data
    /\ IF argv.mappingcachefile
       THEN /\ checkpoint' = "writing"
            /\ checkpointData' = Stringify(mapping)
            /\ writeCalls' = writeCalls + 1
       ELSE UNCHANGED << checkpoint, checkpointData, writeCalls >>
    /\ push' = (IF argv.exporturl THEN "post" ELSE push)
    /\ finish' = "processJSON"
    /\ processCalls' = processCalls + 1
    /\ UNCHANGED << prior, argv, rejections, file, preRunFile, mapping, tagged, private_api,
                    extData, evernote_to_roam, initCalls, candidates, sinkData,
                    importCalls, cleanupCalls, exportCalls,
                    processed, finalData, success, unhandled, crashed >>


\* Variant: the intermediate checkpoint is attached so that it also runs when
\* roamdata rejects.
ImportRejectCheckpoint ==
    /\ Live /\ roamdata = "import"
    /\ roamdata' = "rejected_import"
    /\ finish' = "rejected_roamdata"
    /\ unhandled' = TRUE
    /\ IF argv.mappingcachefile
       THEN /\ checkpoint' = "writing"
            /\ checkpointData' = Stringify(mapping)
            /\ writeCalls' = writeCalls + 1
       ELSE UNCHANGED << checkpoint, checkpointData, writeCalls >>
    /\ UNCHANGED << prior, argv, rejections, file, preRunFile, mapping, tagged, private_api,
                    extData, evernote_to_roam, initCalls, candidates, sinkData,
                    importCalls, cleanupCalls, exportCalls, snapshot,
                    push, processed, processCalls, finalData, success, crashed >>

ImportReject == RoamdataReject("import")

CleanupReject == RoamdataReject("cleanup")

ExportReject == RoamdataReject("export")

\* ------------------------------------------------ intermediate checkpoint
\* Contents a failed fs.writeFile can leave: the file as it was, or the file
\* cut short (it is opened for writing before the data is written).
AfterFailedWrite == { file, Truncated }

CheckpointResolve ==
    /\ Live /\ checkpoint = "writing"
    /\ checkpoint' = "written"
    /\ file' = checkpointData
    /\ UNCHANGED << prior, argv, rejections, preRunFile, mapping, tagged, private_api,
                    extData, evernote_to_roam, initCalls, candidates, sinkData, roamdata,
                    importCalls, cleanupCalls, exportCalls, snapshot,
                    checkpointData, push, finish, processed, processCalls, finalData,
                    writeCalls, success, unhandled, crashed >>

\* The promise roamdata.then( writeFile ) returns has no handler.
CheckpointReject ==
    /\ Live /\ checkpoint = "writing"
    /\ checkpoint' = "failed"
    /\ file' \in AfterFailedWrite
    /\ unhandled' = TRUE
    /\ UNCHANGED << prior, argv, rejections, preRunFile, mapping, tagged, private_api,
                    extData, evernote_to_roam, initCalls, candidates, sinkData, roamdata,
                    importCalls, cleanupCalls, exportCalls, snapshot,
                    checkpointData, push, finish, processed, processCalls, finalData,
                    writeCalls, success, crashed >>

\* ------------------------------------------------------------------ push
\* The POST resolves: response.text() starts.
PostResolve ==
    /\ Live /\ push = "post"
    /\ push' = "text"
    /\ UNCHANGED << prior, argv, rejections, file, preRunFile, mapping, tagged, private_api,
                    extData, evernote_to_roam, initCalls, candidates, sinkData, roamdata,
                    importCalls, cleanupCalls, exportCalls, snapshot, checkpoint,
                    checkpointData, finish, processed, processCalls, finalData,
                    writeCalls, success, unhandled, crashed >>

\* response.text() resolves: 'Updated in your remote URL' is printed.
TextResolve ==
    /\ Live /\ push = "text"
    /\ push' = "done"
    /\ UNCHANGED << prior, argv, rejections, file, preRunFile, mapping, tagged, private_api,
                    extData, evernote_to_roam, initCalls, candidates, sinkData, roamdata,
                    importCalls, cleanupCalls, exportCalls, snapshot, checkpoint,
                    checkpointData, finish, processed, processCalls, finalData,
                    writeCalls, success, unhandled, crashed >>

\* The POST rejects, or the response body cannot be read: the push chain ends
\* rejected, and it has no rejection handler.
PushReject ==
    /\ Live /\ push \in { "post", "text" }
    /\ push' = "failed"
    /\ unhandled' = TRUE
    /\ UNCHANGED << prior, argv, rejections, file, preRunFile, mapping, tagged, private_api,
                    extData, evernote_to_roam, initCalls, candidates, sinkData, roamdata,
                    importCalls, cleanupCalls, exportCalls, snapshot, checkpoint,
                    checkpointData, finish, processed, processCalls, finalData,
                    writeCalls, success, crashed >>

\* ---------------------------------------------------------------- finish
\* e.processJSON handles the next note of the snapshot: a note with a link is
\* updated in place; otherwise a Sink note is created and tagged, and the link
\* recorded at once.
ProcessNote ==
    /\ Live /\ finish = "processJSON" /\ processed < Len(snapshot)
    /\ processed' = processed + 1
    /\ LET r == snapshot[processed + 1]
       IN  IF LookupBySource(mapping, r) # 0
           THEN UNCHANGED << mapping, tagged >>
           ELSE /\ mapping' = Upsert(mapping, r, FreshSinkId(tagged))
                /\ tagged' = tagged \cup { FreshSinkId(tagged) }
    /\ UNCHANGED << prior, argv, rejections, file, preRunFile, private_api,
                    extData, evernote_to_roam, initCalls, candidates, sinkData, roamdata,
                    importCalls, cleanupCalls, exportCalls, snapshot, checkpoint,
                    checkpointData, push, finish, processCalls, finalData,
                    writeCalls, success, unhandled, crashed >>

\* Variant: the final write appends to what the intermediate one wrote.
ProcessJSONResolveAppend ==
    /\ Live /\ finish = "processJSON" /\ processed = Len(snapshot)
    /\ IF argv.mappingcachefile
       THEN /\ finish' = "writeFile"
            /\ finalData' = [ kind |-> "text",
                              body |-> checkpointData.body \o Flatten(mapping) ]
            /\ writeCalls' = writeCalls + 1
            /\ UNCHANGED success
       ELSE /\ finish' = "resolved"
            /\ success' = TRUE
            /\ UNCHANGED << finalData, writeCalls >>
    /\ UNCHANGED << prior, argv, rejections, file, preRunFile, mapping, tagged, private_api,
                    extData, evernote_to_roam, initCalls, candidates, sinkData, roamdata,
                    importCalls, cleanupCalls, exportCalls, snapshot, checkpoint,
                    checkpointData, push, processed, processCalls,
                    unhandled, crashed >>

\* e.processJSON resolves: the final fs.writeFile is called when a cache file
\* is configured; otherwise finish resolves and 'success' is printed.
ProcessJSONResolve ==
    /\ Live /\ finish = "processJSON" /\ processed = Len(snapshot)
    /\ IF argv.mappingcachefile
       THEN /\ finish' = "writeFile"
            /\ finalData' = Stringify(mapping)
            /\ writeCalls' = writeCalls + 1
            /\ UNCHANGED success
       ELSE /\ finish' = "resolved"
            /\ success' = TRUE
            /\ UNCHANGED << finalData, writeCalls >>
    /\ UNCHANGED << prior, argv, rejections, file, preRunFile, mapping, tagged, private_api,
                    extData, evernote_to_roam, initCalls, candidates, sinkData, roamdata,
                    importCalls, cleanupCalls, exportCalls, snapshot, checkpoint,
                    checkpointData, push, processed, processCalls,
                    unhandled, crashed >>

\* Variant: a rejection handler between e.processJSON and the success handler
\* swallows the error.
ProcessJSONRejectSwallowed ==
    /\ Live /\ finish = "processJSON"
    /\ finish' = "resolved"
    /\ success' = TRUE
    /\ UNCHANGED << prior, argv, rejections, file, preRunFile, mapping, tagged, private_api,
                    extData, evernote_to_roam, initCalls, candidates, sinkData, roamdata,
                    importCalls, cleanupCalls, exportCalls, snapshot, checkpoint,
                    checkpointData, push, processed, processCalls, finalData,
                    writeCalls, unhandled, crashed >>

\* e.processJSON rejects, possibly part-way through the snapshot: the final
\* fs.writeFile and the success handler are skipped.
ProcessJSONReject ==
    /\ Live /\ finish = "processJSON"
    /\ finish' = "rejected_processJSON"
    /\ unhandled' = TRUE
    /\ UNCHANGED << prior, argv, rejections, file, preRunFile, mapping, tagged, private_api,
                    extData, evernote_to_roam, initCalls, candidates, sinkData, roamdata,
                    importCalls, cleanupCalls, exportCalls, snapshot, checkpoint,
                    checkpointData, push, processed, processCalls, finalData,
                    writeCalls, success, crashed >>

\* The final fs.writeFile resolves: 'success' is printed.
FinalWriteResolve ==
    /\ Live /\ finish = "writeFile"
    /\ finish' = "resolved"
    /\ file' = finalData
    /\ success' = TRUE
    /\ UNCHANGED << prior, argv, rejections, preRunFile, mapping, tagged, private_api,
                    extData, evernote_to_roam, initCalls, candidates, sinkData, roamdata,
                    importCalls, cleanupCalls, exportCalls, snapshot, checkpoint,
                    checkpointData, push, processed, processCalls, finalData,
                    writeCalls, unhandled, crashed >>

FinalWriteReject ==
    /\ Live /\ finish = "writeFile"
    /\ finish' = "rejected_writeFile"
    /\ file' \in AfterFailedWrite
    /\ unhandled' = TRUE
    /\ UNCHANGED << prior, argv, rejections, preRunFile, mapping, tagged, private_api,
                    extData, evernote_to_roam, initCalls, candidates, sinkData, roamdata,
                    importCalls, cleanupCalls, exportCalls, snapshot, checkpoint,
                    checkpointData, push, processed, processCalls, finalData,
                    writeCalls, success, crashed >>

\* --------------------------------------------------------------- runtime
\* Contents the file can have once the process is gone: a write in flight has
\* landed, has not, or was cut short.
AfterCrash ==
    { file }
    \cup (IF checkpoint = "writing" THEN { checkpointData, Truncated } ELSE { })
    \cup (IF finish = "writeFile" THEN { finalData, Truncated } ELSE { })

\* Under the "throw" policy an unhandled rejection terminates the process
\* once the microtask queue has drained.
Crash ==
    /\ ~ crashed /\ rejections = "throw" /\ unhandled
    /\ crashed' = TRUE
    /\ file' \in AfterCrash
    /\ UNCHANGED << prior, argv, rejections, preRunFile, mapping, tagged, private_api,
                    extData, evernote_to_roam, initCalls, candidates, sinkData, roamdata,
                    importCalls, cleanupCalls, exportCalls, snapshot, checkpoint,
                    checkpointData, push, finish, processed, processCalls, finalData,
                    writeCalls, success, unhandled >>

Next ==
    \/ FetchResolve
    \/ PrivateApiReject
    \/ \E data \in ExtPayloads : JsonResolve(data)
    \/ ReadFileResolve
    \/ ReadFileReject
    \/ InitResolve
    \/ InitReject
    \/ GetNotesResolve
    \/ GetNotesReject
    \/ AllResolve
    \/ ImportResolve
    \/ ImportReject
    \/ CleanupResolve
    \/ CleanupReject
    \/ \E data \in Snapshots : ExportResolve(data)
    \/ ExportReject
    \/ CheckpointResolve
    \/ CheckpointReject
    \/ PostResolve
    \/ TextResolve
    \/ PushReject
    \/ ProcessNote
    \/ ProcessJSONResolve
    \/ ProcessJSONReject
    \/ FinalWriteResolve
    \/ FinalWriteReject
    \/ Crash

Spec == Init /\ [][Next]_vars

\* ------------------------------------------------------------ second run
\* The process has ended: 'success' was printed, nothing is pending and no
\* rejection went unhandled.
Ended ==
    /\ success /\ ~ crashed /\ ~ unhandled
    /\ checkpoint # "writing"
    /\ push \notin { "post", "text" }

\* The operator runs the same command line again, on the same cache file,
\* after a run that ended: the handler starts afresh on the file and the Sink
\* the first run left.
Rerun ==
    /\ ~ prior.ran /\ Ended /\ argv.mappingcachefile
    /\ prior' = [ ran |-> TRUE, extData |-> extData, snapshot |-> snapshot,
                  tagged |-> tagged ]
    /\ preRunFile' = file
    /\ mapping' = << >>
    /\ private_api' = (IF argv.privateapiurl THEN "fetch" ELSE "absent")
    /\ extData' = << >>
    /\ evernote_to_roam' = "readFile"
    /\ initCalls' = << >>
    /\ candidates' = << >>
    /\ sinkData' = << >>
    /\ roamdata' = "all"
    /\ importCalls' = << >>
    /\ cleanupCalls' = 0
    /\ exportCalls' = << >>
    /\ snapshot' = << >>
    /\ checkpoint' = "idle"
    /\ checkpointData' = Missing
    /\ push' = "idle"
    /\ finish' = "pending"
    /\ processed' = 0
    /\ processCalls' = 0
    /\ finalData' = Missing
    /\ writeCalls' = 0
    /\ success' = FALSE
    /\ UNCHANGED << argv, rejections, file, tagged, unhandled, crashed >>

NextTwice == Next \/ Rerun

SpecTwice == Init /\ [][NextTwice]_vars

\* ------------------------------------------------- every call resolves
\* The steps of a run in which every collaborator call resolves. The read of
\* a cache file that does not exist rejects, which the handler catches.
NextResolving ==
    \/ FetchResolve
    \/ \E data \in ExtPayloads : JsonResolve(data)
    \/ ReadFileResolve
    \/ ReadFileReject
    \/ InitResolve
    \/ GetNotesResolve
    \/ AllResolve
    \/ ImportResolve
    \/ CleanupResolve
    \/ \E data \in Snapshots : ExportResolve(data)
    \/ CheckpointResolve
    \/ PostResolve
    \/ TextResolve
    \/ ProcessNote
    \/ ProcessJSONResolve
    \/ FinalWriteResolve

\* Every pending call resolves in the end and the event loop runs every
\* handler that is ready.
Fairness ==
    /\ WF_vars(FetchResolve)
    /\ WF_vars(\E data \in ExtPayloads : JsonResolve(data))
    /\ WF_vars(ReadFileResolve \/ ReadFileReject)
    /\ WF_vars(InitResolve)
    /\ WF_vars(GetNotesResolve)
    /\ WF_vars(AllResolve)
    /\ WF_vars(ImportResolve)
    /\ WF_vars(CleanupResolve)
    /\ WF_vars(\E data \in Snapshots : ExportResolve(data))
    /\ WF_vars(CheckpointResolve)
    /\ WF_vars(PostResolve)
    /\ WF_vars(TextResolve)
    /\ WF_vars(ProcessNote)
    /\ WF_vars(ProcessJSONResolve)
    /\ WF_vars(FinalWriteResolve)

SpecFair == Init /\ [][NextResolving]_vars /\ Fairness

TypeOK ==
    /\ argv \in Args
    /\ rejections \in { "warn", "throw" }
    /\ private_api \in { "absent", "fetch", "json", "resolved", "rejected" }
    /\ evernote_to_roam \in { "readFile", "init_then", "init_catch", "init_else",
                              "getNotesToImport", "resolved", "rejected" }
    /\ roamdata \in { "all", "import", "cleanup", "export", "resolved", "rejected_all",
                      "rejected_import", "rejected_cleanup", "rejected_export" }
    /\ checkpoint \in { "idle", "writing", "written", "failed" }
    /\ push \in { "idle", "post", "text", "done", "failed" }
    /\ finish \in { "pending", "processJSON", "writeFile", "resolved",
                    "rejected_roamdata", "rejected_processJSON", "rejected_writeFile" }
    /\ processed \in 0..Len(snapshot)
    /\ tagged \subseteq 1..MaxSinkId
    /\ success \in BOOLEAN /\ unhandled \in BOOLEAN /\ crashed \in BOOLEAN

\* ================================================================ claims
IngestFailed == private_api = "rejected" \/ evernote_to_roam = "rejected"

\* No stage after ingest was invoked and the cache file was not touched.
NothingAfterIngest ==
    /\ importCalls = << >>
    /\ cleanupCalls = 0
    /\ exportCalls = << >>
    /\ push = "idle"
    /\ processCalls = 0
    /\ writeCalls = 0
    /\ file = preRunFile

\* C1: once an ingest producer has failed (the fetch or its decoding, e.init,
\* e.getNotesToImport or e.getRoamPayload rejected), api.import was never
\* invoked, no later stage was invoked, fs.writeFile was never called and the
\* cache file still has its pre-run content.
C1_IngestFailureAborts == IngestFailed => NothingAfterIngest

\* The fetch failed after the Sink-eligible producer had completed.
C1_Witness ==
    /\ private_api = "rejected"
    /\ evernote_to_roam = "resolved"
    /\ sinkData # << >>

\* C2: when every configured producer returned an empty sequence, api.import
\* is never called.
C2_EmptyPayloadNoImport ==
    (AllSettledOk /\ extData = << >> /\ sinkData = << >>) => importCalls = << >>

\* C3: with the external endpoint configured, api.import is called only after
\* both producers resolved, once, with the external items followed by the
\* Sink-derived items.
C3_JoinThenOrderedPayload ==
    (argv.privateapiurl /\ importCalls # << >>) =>
        /\ private_api = "resolved"
        /\ evernote_to_roam = "resolved"
        /\ importCalls = << extData \o sinkData >>

\* api.import was called with items of both producers.
C3_Witness ==
    /\ argv.privateapiurl
    /\ Len(importCalls) = 1
    /\ extData # << >>
    /\ sinkData # << >>

\* C4: with no external endpoint configured, no fetch is issued and the
\* payload handed to api.import is exactly the Sink-derived items.
C4_NoEndpointSinkItemsOnly ==
    (~ argv.privateapiurl) =>
        /\ private_api = "absent"
        /\ \A i \in 1..Len(importCalls) : importCalls[i] = sinkData

\* C5: e.cleanupImportNotes is called at most once, and not while api.import
\* is pending or after it rejected; after a rejected api.import it was never
\* called and the candidate notes carry no DedupTag.
C5_CleanupOnceAfterMerge ==
    /\ cleanupCalls <= 1
    /\ cleanupCalls > 0 => roamdata \notin { "all", "rejected_all", "import",
                                              "rejected_import" }
    /\ roamdata = "rejected_import" =>
        /\ cleanupCalls = 0
        /\ \A i \in 1..Len(candidates) : candidates[i] \notin tagged

\* api.import rejected with candidate notes in its payload.
C5_Witness == roamdata = "rejected_import" /\ candidates # << >>

\* C6: after api.import rejected, fs.writeFile was never called, the cache
\* file has its pre-run content, and api.getExportData, the push and
\* e.processJSON were never invoked.
C6_MergeErrorAborts ==
    roamdata = "rejected_import" =>
        /\ writeCalls = 0
        /\ file = preRunFile
        /\ exportCalls = << >>
        /\ push = "idle"
        /\ processCalls = 0

\* api.import rejected in a run with a cache file and an export URL.
C6_Witness ==
    /\ roamdata = "rejected_import"
    /\ argv.mappingcachefile
    /\ argv.exporturl
    /\ preRunFile = Stringify(<< << 1, 1 >> >>)

\* C7: the step that ends the read of the cache file never rejects the
\* Sink-eligible producer: it calls e.init, with the absence marker (leaving
\* an empty mapping) whenever the read failed or the content does not parse.
C7_CacheLoadNeverAborts ==
    [][ (evernote_to_roam = "readFile" /\ evernote_to_roam' # "readFile") =>
          \/ /\ Parses(file)
             /\ evernote_to_roam' = "init_then"
             /\ initCalls' = << RawArg(Parse(file)) >>
          \/ /\ evernote_to_roam' = "init_catch"
             /\ initCalls' = << NullArg >>
             /\ mapping' = << >>
             /\ unhandled' = unhandled
             /\ roamdata' = roamdata ]_vars

\* A run whose cache file was missing or unparseable completed the
\* Sink-eligible query after a single e.init( null ).
C7_Witness ==
    /\ argv.mappingcachefile
    /\ ~ Parses(preRunFile)
    /\ initCalls = << NullArg >>
    /\ evernote_to_roam = "resolved"

\* Every link of m is in the cache file.
Persisted(m) ==
    /\ Parses(file)
    /\ \A i \in 1..Len(m) : \E j \in 1..Len(Parse(file)) : Parse(file)[j] = m[i]

\* C8: once e.processJSON has failed and the intermediate write has landed,
\* the cache file holds every link of the mapping, those upserted by
\* e.processJSON before it failed included.
C8_CachePersistedAfterSinkWriteError ==
    (argv.mappingcachefile /\ finish = "rejected_processJSON" /\ checkpoint = "written")
        => Persisted(mapping)

\* C9: once the merge and the cleanup have succeeded, the cache is written to
\* the cache file even when api.getExportData rejects.
C9_CheckpointDespiteExportError ==
    (argv.mappingcachefile /\ roamdata = "rejected_export") => writeCalls > 0

\* The run is over: the process is gone, or nothing is in flight.
RunOver ==
    \/ crashed
    \/ /\ finish \notin { "pending", "processJSON", "writeFile" }
       /\ checkpoint # "writing"
       /\ push \notin { "post", "text" }

\* The push failed and no other call did.
OnlyPushFailed ==
    /\ push = "failed"
    /\ roamdata = "resolved"
    /\ checkpoint # "failed"
    /\ finish \notin { "rejected_roamdata", "rejected_processJSON", "rejected_writeFile" }

\* C10: a failed push never keeps the run from finishing: a run in which only
\* the push failed ends with e.processJSON completed, the final checkpoint
\* issued when a cache file is configured, and 'success' printed.
C10_PushFailureContained ==
    (OnlyPushFailed /\ RunOver) =>
        /\ success
        /\ processed = Len(snapshot)
        /\ argv.mappingcachefile => finalData = Stringify(mapping)

\* C11: every api.getExportData call gets removeArtifacts = removezip and not
\* nodownload; it is false whenever the download was skipped.
C11_RemoveArtifactsFlag ==
    \A i \in 1..Len(exportCalls) :
        /\ exportCalls[i] = (argv.removezip /\ ~ argv.nodownload)
        /\ argv.nodownload => exportCalls[i] = FALSE

\* api.getExportData was called in a run that asked for cleanup and skipped
\* the download.
C11_Witness ==
    /\ Len(exportCalls) = 1
    /\ argv.removezip
    /\ argv.nodownload

\* Nothing outside the program changed between the two runs: the endpoint
\* serves the payload it served before and the Source holds the pages it held.
SameWorld ==
    /\ private_api = "resolved" => extData = prior.extData
    /\ roamdata = "resolved" => snapshot = prior.snapshot

\* The run read the cache file and e.init took what it held.
CacheLoaded ==
    evernote_to_roam # "readFile" => initCalls = << RawArg(Parse(preRunFile)) >>

\* Sink notes that e.processJSON created.
CreatedSinkNotes(t) == t \cap ((NumSink + 1)..MaxSinkId)

\* Source notes this run asked the Source to create: the Sink-derived items
\* handed to api.import.
CreatedSourceNotes ==
    UNION { { importCalls[i][j] : j \in 1..Len(importCalls[i]) } :
            i \in 1..Len(importCalls) }
        \cap { SinkItem(s) : s \in SinkIds }

\* C12: the second of two runs in succession on the same cache file, which it
\* loads, with no change outside the program in between, creates no Source
\* note and no Sink note.
C12_SecondRunCreatesNothing ==
    (prior.ran /\ argv.mappingcachefile /\ SameWorld /\ CacheLoaded) =>
        /\ CreatedSourceNotes = { }
        /\ CreatedSinkNotes(tagged) = CreatedSinkNotes(prior.tagged)

\* The run started without a cache file and found one eligible Sink note;
\* the export taken after the merge holds the page made from it.
OneEligibleNoCache ==
    /\ ~ prior.ran
    /\ preRunFile = Missing
    /\ Len(candidates) = 1
    /\ snapshot # << >>

\* C13: after a successful run that started with the cache file absent and
\* one eligible, untagged Sink note, the mapping has exactly one entry, its
\* sinkId is that note's, and the note carries the DedupTag.
C13_ImportedNoteLinkedAndTagged ==
    (OneEligibleNoCache /\ success) =>
        /\ Len(mapping) = 1
        /\ mapping[1][2] = candidates[1]
        /\ candidates[1] \in tagged

\* No two entries share a sourceId and no two share a sinkId.
Unique(m) ==
    \A i, j \in 1..Len(m) :
        i # j => (m[i][1] # m[j][1] /\ m[i][2] # m[j][2])

\* C14: in every state of every run, the one right after loading a cache file
\* an earlier run wrote included, the mapping has no two entries sharing a
\* sourceId or a sinkId, and neither has any content written to the cache file.
C14_MappingUnique ==
    /\ Unique(mapping)
    /\ Unique(Parse(checkpointData))
    /\ Unique(Parse(finalData))
    /\ Parses(file) => Unique(Parse(file))

\* The second run has just loaded a file of two links the first run wrote.
C14_Witness ==
    /\ prior.ran
    /\ evernote_to_roam = "init_then"
    /\ Len(mapping) = 2
    /\ file = Stringify(mapping)

\* One of the stages 'success' depends on has failed.
StageFailed ==
    \/ IngestFailed
    \/ roamdata \in { "rejected_all", "rejected_import", "rejected_cleanup",
                      "rejected_export" }
    \/ finish \in { "rejected_roamdata", "rejected_processJSON", "rejected_writeFile" }

\* Every stage 'success' depends on has completed.
StagesCompleted ==
    /\ AllSettledOk
    /\ roamdata = "resolved"
    /\ Len(importCalls) = (IF Len(Payload(Results)) > 0 THEN 1 ELSE 0)
    /\ cleanupCalls = 1
    /\ Len(exportCalls) = 1
    /\ processCalls = 1 /\ processed = Len(snapshot)
    /\ finish = "resolved"
    /\ argv.mappingcachefile => (writeCalls = 2 /\ finalData = Stringify(mapping))

\* C15: 'success' is printed only when ingest, the merge (for a payload that
\* is not empty), cleanup, export, e.processJSON and, with a cache file, the
\* final write have all completed; once one of them has failed it is never
\* printed.
C15_SuccessOnlyAfterAllStages ==
    /\ success => StagesCompleted
    /\ StageFailed => ~ success

\* 'success' after a run with both producers, a merge and a cache file.
C15_Witness ==
    /\ success
    /\ argv.privateapiurl /\ argv.mappingcachefile
    /\ Len(importCalls) = 1
    /\ Len(snapshot) = NumSource

\* C16: the stages after ingest run one after the other: e.cleanupImportNotes
\* is called only once api.import has completed, api.getExportData only once
\* the cleanup has, and the push, the intermediate write and e.processJSON
\* only once the export has; the snapshot they get was exported after the
\* merge.
C16_StagesSequential ==
    /\ cleanupCalls > 0 =>
           roamdata \in { "cleanup", "export", "resolved", "rejected_cleanup",
                          "rejected_export" }
    /\ exportCalls # << >> =>
           roamdata \in { "export", "resolved", "rejected_export" }
    /\ (push # "idle" \/ checkpoint # "idle" \/ processCalls > 0) =>
           /\ roamdata = "resolved"
           /\ Len(exportCalls) = 1
           /\ cleanupCalls = 1
    /\ roamdata \in { "all", "import" } => snapshot = << >>

\* The export has resolved after a merge: the intermediate write, the push
\* and e.processJSON have all just started.
C16_Witness ==
    /\ Len(importCalls) = 1
    /\ roamdata = "resolved"
    /\ checkpoint = "writing" /\ push = "post" /\ finish = "processJSON"
    /\ processed = 0 /\ snapshot # << >>

\* C17: once 'success' is printed in a run with a cache file, the file holds
\* the serialization of the mapping as e.processJSON left it, then and from
\* then on: the intermediate write never lands after the final one. Runs in
\* which a write failed are left aside.
C17_FinalWriteAuthoritative ==
    (success /\ argv.mappingcachefile /\ ~ crashed /\ checkpoint # "failed") =>
        /\ finalData = Stringify(mapping)
        /\ file = finalData

\* C18: when every collaborator call resolves and scheduling is fair, the run
\* prints 'success' in the end, whichever producer completes first and with
\* or without an export URL.
C18_EventuallySuccess == <> success

\* 'success' printed after a run with both producers while the push to the
\* export URL is still in flight.
C18_Witness ==
    /\ success
    /\ argv.privateapiurl /\ argv.exporturl
    /\ push = "post"

\* C19: e.init is called at most once in a run, and before
\* e.getNotesToImport: when the call made with the parsed cache rejects, the
\* Sink-eligible producer fails and no second call with an empty cache is made.
C19_InitAtMostOnce ==
    /\ Len(initCalls) <= 1
    /\ evernote_to_roam \in { "getNotesToImport", "resolved" } => Len(initCalls) = 1
====
